---- MODULE Spec2Model ----
(***************************************************************************)
(* A model of jenkins/bootstrap.py: the path scheme (CIPath, PRPath), the  *)
(* rolling result history (AppendBuild) and the Bootstrap orchestration.   *)
(*                                                                         *)
(* Strings are sequences of tokens.  A token is either the separator "/"   *)
(* or a chunk that holds no separator.  The inputs are built from          *)
(* one-character tokens and the literals of the source are whole-word      *)
(* tokens, so two token sequences are equal exactly when the strings are.  *)
(***************************************************************************)
EXTENDS Integers, Sequences, FiniteSets, TLC

\* ------------------------------------------------------------------ bounds
\* Longest job name and build id, in tokens, that the path scheme is tried on.
MaxLen == 2
\* Largest pull-request number tried.
MaxPull == 2
\* AppendBuild calls started against one history document.
MaxCalls == 2

\* ------------------------------------------------------- program constants
\* cache[-200:]
HistCap == 200

\* ------------------------------------------------------------------ strings
\* Python's None, for attributes and arguments that hold a string otherwise.
None == <<"<None>">>

\* Python truthiness of a string-or-None value: None and '' are false.
Truthy(s) == s # None /\ s # <<>>

\* str.startswith('/') and str.endswith('/')
StartsWithSep(s) == s # <<>> /\ Head(s) = "/"
EndsWithSep(s) == s # <<>> /\ s[Len(s)] = "/"

\* One step of posixpath.join: an absolute component discards what precedes it,
\* an empty path or one that already ends in the separator takes the component
\* as is, otherwise the separator is inserted.
Join2(a, b) ==
  IF StartsWithSep(b) THEN b
  ELSE IF a = <<>> \/ EndsWithSep(a) THEN a \o b
  ELSE a \o <<"/">> \o b

RECURSIVE JoinFrom(_, _)
JoinFrom(path, parts) ==
  IF parts = <<>> THEN path
  ELSE JoinFrom(Join2(path, Head(parts)), Tail(parts))

\* os.path.join(a, *p)
Join(parts) == JoinFrom(Head(parts), Tail(parts))

\* s has prefix p
HasPrefix(s, p) == Len(p) <= Len(s) /\ SubSeq(s, 1, Len(p)) = p

\* All token sequences over alphabet of length at most n.
StringsUpTo(alphabet, n) == UNION {[1..k -> alphabet] : k \in 0..n}

\* ---------------------------------------------------------------- arguments
\* --pull is an int or absent: <<>> is None, <<n>> is the number n.
NoPull == <<>>
\* bool(pull): None and 0 are false.
PullTruthy(pull) == pull # NoPull /\ pull[1] # 0
\* str(pull), a single token.
PullStr(pull) == <<ToString(pull[1])>>

\* -------------------------------------------------------------- path scheme
CIBase == <<"gs:", "/", "/", "kubernetes-jenkins", "/", "logs">>
PRBase == <<"gs:", "/", "/", "kubernetes-jenkins", "/", "pr-logs">>

CIPath(job, build) ==
  LET latest == Join(<<CIBase, job, <<"latest-build.txt">> >>) IN
  [ variant |-> "CI",
    base |-> CIBase,
    build_link |-> None,
    build_result_cache |-> None,
    build_path |-> None,
    artifacts |-> Join(<<CIBase, job, build, <<"artifacts">> >>),
    started |-> Join(<<CIBase, job, build, <<"started.json">> >>),
    finished |-> Join(<<CIBase, job, build, <<"finished.json">> >>),
    build_log |-> Join(<<CIBase, job, build, <<"build-log.txt">> >>),
    latest |-> latest,
    result_cache |-> Join(<<CIBase, job, <<"jobResultsCache.json">> >>),
    build_latest |-> latest ]

PRPath(job, build, pull) ==
  LET build_path == Join(<<PRBase, <<"pull">>, pull, job, build>>) IN
  [ variant |-> "PR",
    base |-> PRBase,
    build_path |-> build_path,
    artifacts |-> Join(<<build_path, <<"artifacts">> >>),
    started |-> Join(<<build_path, <<"started.json">> >>),
    finished |-> Join(<<build_path, <<"finished.json">> >>),
    build_log |-> Join(<<build_path, <<"build-log.txt">> >>),
    latest |-> Join(<<PRBase, <<"directory">>, job, <<"latest-build.txt">> >>),
    result_cache |->
      Join(<<PRBase, <<"directory">>, job, <<"jobResultsCache.json">> >>),
    build_latest |->
      Join(<<PRBase, <<"pull">>, pull, job, <<"latest-build.txt">> >>),
    build_result_cache |->
      Join(<<PRBase, <<"pull">>, pull, job, <<"jobResultsCache.json">> >>),
    build_link |-> Join(<<PRBase, <<"directory">>, job, build \o <<".txt">> >>) ]

\* Bootstrap's choice of the variant: a pull request number that is truthy
\* selects PRPath, None and 0 select CIPath.
SelectPaths(job, build, pull) ==
  IF PullTruthy(pull) THEN PRPath(job, build, PullStr(pull))
  ELSE CIPath(job, build)

\* The path set before it is computed.
NoPaths == [variant |-> "none"]

\* ------------------------------------------------------------ process runner
\* How an external command can end: exit code zero, exit code non-zero, or
\* the executable cannot be started at all (Popen raises OSError).
Outcomes == {"zero", "nonzero", "oserror"}

\* What a call of Subprocess does in its caller, given the input handed to the
\* child and how the child ends.  The input pipe is closed only for a truthy
\* input, so a child that reads its input to the end never ends when it is
\* handed the empty string.
Subprocess(stdin, outcome) ==
  IF outcome = "oserror" THEN "OSError"
  ELSE IF stdin = <<>> THEN "hang"
  ELSE IF outcome = "nonzero" THEN "CalledProcessError"
  ELSE "return"

\* json.dumps of a record or a list is never the empty string.
JsonText == <<"json">>

\* ----------------------------------------------------------- result history
\* A remote document: t says what the object holds, v its entries when it is
\* a JSON list ("absent": no such object; "empty", "garbage": not JSON;
\* "object", "number", "string", "null": JSON, but no list).
Doc(t, v) == [t |-> t, v |-> v]
ListDoc(v) == Doc("list", v)
NonListKinds == {"object", "number", "string", "null"}
UnparseableKinds == {"empty", "garbage"}

Entry(version, build, passed) ==
  [ version |-> version,
    buildnumber |-> build,
    passed |-> passed,
    result |-> IF passed THEN "SUCCESS" ELSE "FAILURE" ]

\* A faulty truncation: cache[:n], which keeps the oldest entries.
FirstN(s, n) == IF Len(s) <= n THEN s ELSE SubSeq(s, 1, n)

\* cache[-n:]
LastN(s, n) == IF Len(s) <= n THEN s ELSE SubSeq(s, Len(s) - n + 1, Len(s))

\* A faulty try block: only the non-zero exit is caught, a ValueError of
\* json.loads leaves AppendBuild.
ReadCacheNoValueError(doc, outcome) ==
  LET res == IF outcome = "oserror" THEN "OSError"
             ELSE IF outcome = "nonzero" THEN "CalledProcessError" ELSE "return" IN
  IF res = "OSError" THEN [exc |-> "OSError", read |-> "oserror", cache |-> Doc("list", <<>>)]
  ELSE IF res = "CalledProcessError"
    THEN [exc |-> "none", read |-> "nonzero", cache |-> Doc("list", <<>>)]
  ELSE IF doc.t \in UnparseableKinds
    THEN [exc |-> "ValueError", read |-> "unparseable", cache |-> Doc("list", <<>>)]
  ELSE [exc |-> "none", read |-> "value", cache |-> doc]

\* The try block of AppendBuild: the read command and json.loads.  A non-zero
\* exit and a ValueError both give the empty list; OSError is not caught.
\* read: what the read gave, kept for the claims.
ReadCache(doc, outcome) ==
  LET res == Subprocess(None, outcome) IN
  IF res = "OSError" THEN [exc |-> "OSError", read |-> "oserror", cache |-> ListDoc(<<>>)]
  ELSE IF res = "CalledProcessError"
    THEN [exc |-> "none", read |-> "nonzero", cache |-> ListDoc(<<>>)]
  ELSE IF doc.t \in UnparseableKinds
    THEN [exc |-> "none", read |-> "unparseable", cache |-> ListDoc(<<>>)]
  ELSE [exc |-> "none", read |-> "value", cache |-> doc]

\* A faulty update: the new entry replaces the history instead of joining it.
AppendEntryOverwrite(value, entry) ==
  IF value.t = "list"
  THEN [exc |-> "none", cache |-> <<entry>>]
  ELSE [exc |-> "AttributeError", cache |-> <<>>]

\* cache.append(entry); cache = cache[-200:].  Only a list has append.
AppendEntry(value, entry) ==
  IF value.t = "list"
  THEN [exc |-> "none", cache |-> LastN(Append(value.v, entry), HistCap)]
  ELSE [exc |-> "AttributeError", cache |-> <<>>]

\* AppendBuild up to the upload: the list to upload, or the exception raised.
\* prior is the list the new entry was appended to.
BuildCache(doc, outcome, entry) ==
  LET rc == ReadCache(doc, outcome)
      ap == AppendEntry(rc.cache, entry)
  IN IF rc.exc # "none" THEN [exc |-> rc.exc, read |-> rc.read, prior |-> <<>>, cache |-> <<>>]
     ELSE [exc |-> ap.exc, read |-> rc.read,
           prior |-> IF rc.cache.t = "list" THEN rc.cache.v ELSE <<>>,
           cache |-> ap.cache]

\* The read command of a document that does not exist exits non-zero.
CanEnd(doc, outcome) == doc.t = "absent" => outcome # "zero"

\* =========================================================== the path scheme
\* State: the three inputs and the path set computed from them.
VARIABLES pin, pout

pathVars == <<pin, pout>>

JobNames == StringsUpTo({"j", "/"}, MaxLen)
BuildIds == StringsUpTo({"b", "/"}, MaxLen)
PullArgs == {NoPull} \cup {<<n>> : n \in 0..MaxPull}

PathsInit ==
  /\ pin \in [job : JobNames, build : BuildIds, pull : PullArgs]
  /\ pout = NoPaths

PathsParked ==
  /\ pin = [job |-> <<>>, build |-> <<>>, pull |-> NoPull]
  /\ pout = NoPaths

\* paths = PRPath(job, build, str(pull)) if pull else CIPath(job, build)
MakePaths ==
  /\ pout = NoPaths
  /\ pout' = SelectPaths(pin.job, pin.build, pin.pull)
  /\ UNCHANGED pin

\* ========================================================= the history document
\* Bootstrap runs A and B of one job, each calling AppendBuild on the same
\* remote document.  The read command and the upload command of a call are
\* two steps; other runs may act between them.
VARIABLES
  doc,      \* the remote history document
  rpc,      \* per run: "idle", "read" (read done, upload pending), "done", "failed"
  rcall,    \* per run: the call under way: the result of BuildCache, the entry,
            \* the kind of document the read met and how the read command ended
  rovl,     \* per run: the call under way overlapped a call of the other run
  calls,    \* AppendBuild calls started so far
  seed,     \* the entries of the document before the first call
  log       \* the calls whose upload succeeded, in upload order

histVars == <<doc, rpc, rcall, rovl, calls, seed, log>>

Runs == {"A", "B"}

NoCall == [exc |-> "none", read |-> "none", prior |-> <<>>, cache |-> <<>>,
           entry |-> Entry(<<>>, <<>>, FALSE), saw |-> "none", outcome |-> "none"]

SeedEntry(i) == Entry(<<"v0">>, <<"s", ToString(i)>>, TRUE)
SeedList(n) == [i \in 1..n |-> SeedEntry(i)]

\* Documents a first call can meet: none, non-JSON text, JSON that is not a
\* list, and lists around the cap.
SeedDocs ==
  {Doc(t, <<>>) : t \in {"absent"} \cup UnparseableKinds \cup NonListKinds}
  \cup {ListDoc(SeedList(n)) : n \in {0, 1, HistCap - 1, HistCap, HistCap + 1}}

HistInit ==
  /\ doc \in SeedDocs
  /\ seed = doc.v
  /\ rpc = [r \in Runs |-> "idle"]
  /\ rcall = [r \in Runs |-> NoCall]
  /\ rovl = [r \in Runs |-> FALSE]
  /\ calls = 0
  /\ log = <<>>

HistParked ==
  /\ doc = Doc("absent", <<>>)
  /\ seed = <<>>
  /\ rpc = [r \in Runs |-> "idle"]
  /\ rcall = [r \in Runs |-> NoCall]
  /\ rovl = [r \in Runs |-> FALSE]
  /\ calls = 0
  /\ log = <<>>

\* AppendBuild from its first line to cache = cache[-200:], in a run that is
\* not inside a call (a new call, or a new run after one that ended).
HRead(r) ==
  /\ rpc[r] # "read"
  /\ calls < MaxCalls
  /\ \E outcome \in Outcomes, passed \in BOOLEAN :
       /\ CanEnd(doc, outcome)
       /\ LET entry == Entry(<<"v1">>, <<ToString(calls + 1)>>, passed)
              bc == BuildCache(doc, outcome, entry)
              busy == {q \in Runs \ {r} : rpc[q] = "read"}
          IN /\ rcall' = [rcall EXCEPT ![r] = [exc |-> bc.exc, read |-> bc.read,
                                               prior |-> bc.prior, cache |-> bc.cache,
                                               entry |-> entry, saw |-> doc.t,
                                               outcome |-> outcome]]
             /\ rpc' = [rpc EXCEPT ![r] = IF bc.exc = "none" THEN "read" ELSE "failed"]
             /\ rovl' = [q \in Runs |-> IF q = r THEN busy # {}
                                        ELSE rovl[q] \/ (q \in busy /\ bc.exc = "none")]
  /\ calls' = calls + 1
  /\ UNCHANGED <<doc, seed, log>>

\* gsutil.UploadJson(path, cache), the last line of AppendBuild.
HWrite(r) ==
  /\ rpc[r] = "read"
  /\ \E outcome \in Outcomes :
       LET res == Subprocess(JsonText, outcome) IN
       IF res = "return"
       THEN /\ doc' = ListDoc(rcall[r].cache)
            /\ rpc' = [rpc EXCEPT ![r] = "done"]
            /\ log' = Append(log, [run |-> r, entry |-> rcall[r].entry,
                                   saw |-> rcall[r].saw, outcome |-> rcall[r].outcome,
                                   prior |-> rcall[r].prior,
                                   wrote |-> rcall[r].cache, ovl |-> rovl[r]])
       ELSE /\ rpc' = [rpc EXCEPT ![r] = "failed"]
            /\ UNCHANGED <<doc, log>>
  /\ UNCHANGED <<rcall, rovl, calls, seed>>

\* ============================================================ one Bootstrap run
\* The stages of Bootstrap, in the order of its lines.
Stages ==
  << "init-logging", "compute-build-id", "checkout-source", "detect-version",
     "setup-credentials", "report-start", "run-job", "report-finish",
     "finalize-log-upload" >>

\* A faulty order: the job runs before the start record is uploaded.
NextStageJobFirst(stage) ==
  CASE stage = "setup-credentials" -> "run-job"
    [] stage = "run-job" -> "report-start"
    [] stage = "report-start" -> "report-finish"
    [] stage = "finalize-log-upload" -> "done"
    [] OTHER -> LET i == CHOOSE k \in DOMAIN Stages : Stages[k] = stage IN Stages[i + 1]

\* The stage Bootstrap enters when stage returns; "done" after the last one.
NextStage(stage) ==
  LET i == CHOOSE k \in DOMAIN Stages : Stages[k] = stage IN
  IF i = Len(Stages) THEN "done" ELSE Stages[i + 1]

\* The environment variables SetupCredentials defaults.
CredVars ==
  { "JENKINS_GCE_SSH_PRIVATE_KEY_FILE", "JENKINS_GCE_SSH_PUBLIC_KEY_FILE",
    "JENKINS_AWS_SSH_PRIVATE_KEY_FILE", "JENKINS_AWS_SSH_PUBLIC_KEY_FILE",
    "GOOGLE_APPLICATION_CREDENTIALS" }

EnvNames ==
  CredVars \cup {"HOME", "BUILD_NUMBER", "JOB_NAME", "WORKSPACE", "CLOUDSDK_CONFIG"}

\* The default of a credential variable, relative to the home directory.
CredDefault(k) ==
  CASE k = "JENKINS_GCE_SSH_PRIVATE_KEY_FILE" -> <<".ssh", "/", "google_compute_engine">>
    [] k = "JENKINS_GCE_SSH_PUBLIC_KEY_FILE" -> <<".ssh", "/", "google_compute_engine.pub">>
    [] k = "JENKINS_AWS_SSH_PRIVATE_KEY_FILE" -> <<".ssh", "/", "kube_aws_rsa">>
    [] k = "JENKINS_AWS_SSH_PUBLIC_KEY_FILE" -> <<".ssh", "/", "kube_aws_rsa.pub">>
    [] k = "GOOGLE_APPLICATION_CREDENTIALS" -> <<"service-account.json">>

\* A faulty defaulting: the default is installed over a value that is set.
CredentialDefaultsOverwrite(e) ==
  [k \in DOMAIN e |->
     IF k \in CredVars THEN Join(<<e["HOME"], CredDefault(k)>>) ELSE e[k]]

\* The five os.environ.setdefault calls: a variable that is set keeps its
\* value, one that is not gets its default under $HOME.
CredentialDefaults(e) ==
  [k \in DOMAIN e |->
     IF k \in CredVars /\ e[k] = None THEN Join(<<e["HOME"], CredDefault(k)>>)
     ELSE e[k]]

\* A faulty check: the service-account credential file is not looked for.
CredentialErrorKeyOnly(home, keyFile, credFile) ==
  IF home = None THEN "KeyError"
  ELSE IF ~keyFile THEN "IOError"
  ELSE "none"

\* The exception SetupCredentials raises before it activates the account:
\* os.environ['HOME'] of an unset HOME, then the two os.path.isfile checks.
CredentialError(home, keyFile, credFile) ==
  IF home = None THEN "KeyError"
  ELSE IF ~keyFile THEN "IOError"
  ELSE IF ~credFile THEN "IOError"
  ELSE "none"

\* WORKSPACE, HOME and CLOUDSDK_CONFIG are redirected to the working directory.
RedirectHome(e, dir) ==
  [e EXCEPT !["WORKSPACE"] = dir, !["HOME"] = dir,
            !["CLOUDSDK_CONFIG"] = dir \o <<"/", ".config", "/", "gcloud">>]

\* The exception Checkout raises before it runs any command.
CheckoutError(branch, pull) ==
  IF Truthy(branch) = PullTruthy(pull) THEN "ValueError" ELSE "none"

\* A faulty handler: success stays True when the job runner fails.
JobSuccessAlways(res) == TRUE

\* try: Subprocess(cmd); success = True / except CalledProcessError: success = False.
\* Any other exception leaves the try statement.
JobRaises(res) == res \notin {"return", "CalledProcessError"}
JobSuccess(res) == res = "return"

\* The record Finish uploads to paths.finished; metadata is the parsed
\* metadata.json, kept only when it is a non-empty JSON object.
FinishData(passed, meta) ==
  [ passed |-> passed,
    result |-> IF passed THEN "SUCCESS" ELSE "FAILURE",
    metadata |-> meta = "object" ]

\* What the metadata file can be.
MetaKinds == {"nofile", "malformed", "nonobject", "emptyobject", "object"}

\* The metadata file the job leaves in its artifact directory, and the file
\* Finish looks for: os.path.join(paths.artifacts, 'metadata.json').
LocalMetadataPath == <<"_artifacts", "/", "metadata.json">>
MetadataPath(p) == Join(<<p.artifacts, <<"metadata.json">> >>)
NotLooked == [local |-> "none", looked |-> "none"]

\* for path in {paths.latest, paths.build_latest}
PointerPaths(p) == {p.latest, p.build_latest}

\* A faulty order: the PR-scoped history is updated before the directory one.
CachePathsPRFirst(p) ==
  (IF Truthy(p.build_result_cache) THEN <<p.build_result_cache>> ELSE <<>>)
  \o <<p.result_cache>>

\* The documents the two AppendBuild calls of Finish update, in call order.
CachePaths(p) ==
  <<p.result_cache>> \o
  (IF Truthy(p.build_result_cache) THEN <<p.build_result_cache>> ELSE <<>>)

\* The positions inside Finish, in the order of its lines, and the position
\* that follows one.
FinishSubs == <<"artifacts", "latest", "link", "read", "write", "record">>
AfterSub(s) ==
  CASE s = "artifacts" -> "latest"
    [] s = "latest" -> "link"
    [] s = "link" -> "read"
    [] s = "read" -> "write"
    [] s = "write" -> "record"

VARIABLES
  pc,           \* the stage Bootstrap is in, or "done", "crashed", "hung"
  sub,          \* the position inside a stage that runs several commands
  args,         \* job, branch and pull of the command line
  env,          \* os.environ
  cwd,          \* the working directory
  build,        \* Bootstrap's build
  version,      \* Bootstrap's version
  paths,        \* Bootstrap's paths
  success,      \* Bootstrap's success
  artifactsDir, \* os.path.isdir('_artifacts') once the job has run
  pending,      \* Finish: the pointer paths the for loop has yet to visit
  todo,         \* Finish: the history documents yet to update
  cache,        \* AppendBuild: the list to upload
  cmds,         \* the external commands started, in order
  store,        \* the objects uploaded to the object store, in order
  remote,       \* the history documents read or written, by path
  steps,        \* the stages entered, in order
  jobOutcome,   \* how the job runner ended, "none" before
  fault,        \* the pre-job error met, "none" when there is none
  crashedAt,    \* the stage and the exception that ended the run
  exit,         \* the exit code of the process, -1 while it runs
  metadataFiles \* what Finish found at the two metadata paths, once it looked

runVars ==
  << pc, sub, args, env, cwd, build, version, paths, success, artifactsDir,
     pending, todo, cache, cmds, store, remote, steps, jobOutcome, fault,
     crashedAt, exit, metadataFiles >>

\* ------------------------------------------------------------ Subprocess
\* The process runner and its child, with the two output pipes between them.
\* A pipe holds at most PipeCap characters; the child writes at most MaxOut.
PipeCap == 1
MaxOut == 3

VARIABLES stdin, output, reads, ready, cur, line, out, code, lines, at, logs,
          pipe, closedW, want, wrote, child, returncode, readsStdin, sin

procVars ==
  << stdin, output, reads, ready, cur, line, out, code, lines, at, logs,
     pipe, closedW, want, wrote, child, returncode, readsStdin, sin >>

NL == "\n"
Chars == {"a", NL}
\* reads = [proc.stdout.fileno(), proc.stderr.fileno()]
Fds == <<"stdout", "stderr">>
NoWant == [fd |-> "none", ch |-> "none"]
EmptyPipes == [fd \in {"stdout", "stderr"} |-> <<>>]

\* logging.info for the lines of standard output, logging.warning for those
\* of standard error.
Level(fd) == IF fd = "stdout" THEN "info" ELSE "warning"

\* line[:-1]
DropLast(s) == IF s = <<>> THEN <<>> ELSE SubSeq(s, 1, Len(s) - 1)

\* list.remove(fd)
Remove(l, fd) == SelectSeq(l, LAMBDA x : x # fd)

\* The position of the first newline of s, 0 when it has none.
FirstNL(s) ==
  IF \E i \in DOMAIN s : s[i] = NL
  THEN CHOOSE i \in DOMAIN s : s[i] = NL /\ \A j \in 1..(i - 1) : s[j] # NL
  ELSE 0

\* select reports a descriptor that has data or is at end-of-file.
Readable(fd) == pipe[fd] # <<>> \/ closedW[fd]
Ready == SelectSeq(reads, Readable)

\* '\n'.join(out)
RECURSIVE JoinLines(_)
JoinLines(l) ==
  IF l = <<>> THEN <<>>
  ELSE IF Len(l) = 1 THEN l[1]
  ELSE l[1] \o <<NL>> \o JoinLines(Tail(l))

\* The state of the child's standard input after Popen and the hand-off:
\* a pipe is made when stdin is not None, written and closed when stdin is
\* truthy.
StdinAfterHandOff(input) ==
  IF input = None THEN "inherit"
  ELSE IF Truthy(input) THEN "closed"
  ELSE "open"

ProcInit ==
  /\ stdin \in {None, <<>>, <<"x">>}
  /\ output \in BOOLEAN
  /\ readsStdin \in BOOLEAN
  /\ reads = <<>>
  /\ ready = <<>>
  /\ cur = "none"
  /\ line = <<>>
  /\ out = <<>>
  /\ code = None
  /\ lines = None
  /\ at = "popen"
  /\ logs = <<>>
  /\ pipe = EmptyPipes
  /\ closedW = [fd \in {"stdout", "stderr"} |-> FALSE]
  /\ want = NoWant
  /\ wrote = EmptyPipes
  /\ child = "unborn"
  /\ returncode = None
  /\ sin = "none"

ProcParked ==
  /\ stdin = None
  /\ output = FALSE
  /\ readsStdin = FALSE
  /\ reads = <<>>
  /\ ready = <<>>
  /\ cur = "none"
  /\ line = <<>>
  /\ out = <<>>
  /\ code = None
  /\ lines = None
  /\ at = "returned"
  /\ logs = <<>>
  /\ pipe = EmptyPipes
  /\ closedW = [fd \in {"stdout", "stderr"} |-> TRUE]
  /\ want = NoWant
  /\ wrote = EmptyPipes
  /\ child = "exited"
  /\ returncode = None
  /\ sin = "none"

\* logging.info('Call subprocess: ...')
CallLog == [level |-> "info", text |-> <<"Call subprocess">>]

\* The call is logged; Popen, the hand-off of stdin, and the initial values of
\* the loop.
Popen ==
  /\ at = "popen"
  /\ logs' = <<CallLog>>
  /\ child' = "running"
  /\ sin' = StdinAfterHandOff(stdin)
  /\ reads' = Fds
  /\ at' = "select"
  /\ UNCHANGED <<stdin, output, ready, cur, line, out, code, lines, pipe,
                 closedW, want, wrote, returncode, readsStdin>>

\* while reads: ret = select.select(reads, [], [], 0.1).  A select that times
\* out with nothing readable changes nothing and is not a step.
Select ==
  /\ at = "select"
  /\ IF reads = <<>>
     THEN /\ at' = "wait"
          /\ UNCHANGED <<cur, ready>>
     ELSE /\ Ready # <<>>
          /\ cur' = Head(Ready)
          /\ ready' = Tail(Ready)
          /\ at' = "readline"
  /\ UNCHANGED <<stdin, output, reads, line, out, code, lines, logs, pipe, closedW,
                 want, wrote, child, returncode, readsStdin, sin>>

\* proc.stdout.readline() or proc.stderr.readline(), and what the loop does
\* with the line.  readline takes what the pipe holds, up to a newline; it
\* returns at a newline or at end-of-file and otherwise goes on waiting.
Readline ==
  LET avail == pipe[cur]
      n == FirstNL(avail)
      got == IF n > 0 THEN SubSeq(avail, 1, n) ELSE avail
      rest == IF n > 0 THEN SubSeq(avail, n + 1, Len(avail)) ELSE <<>>
      full == line \o got
      complete == n > 0 \/ closedW[cur]
  IN
  /\ at = "readline"
  /\ got # <<>> \/ closedW[cur]
  /\ pipe' = [pipe EXCEPT ![cur] = rest]
  /\ IF ~complete
     THEN /\ line' = full
          /\ UNCHANGED <<reads, logs, out, cur, ready, at>>
     ELSE /\ line' = <<>>
          /\ IF full = <<>>
             THEN /\ reads' = Remove(reads, cur)
                  /\ UNCHANGED <<logs, out>>
             ELSE /\ logs' = Append(logs, [level |-> Level(cur), text |-> DropLast(full)])
                  /\ out' = IF cur = "stdout" /\ output THEN Append(out, full) ELSE out
                  /\ UNCHANGED reads
          /\ IF ready # <<>>
             THEN /\ cur' = Head(ready)
                  /\ ready' = Tail(ready)
                  /\ UNCHANGED at
             ELSE /\ cur' = "none"
                  /\ at' = "select"
                  /\ UNCHANGED ready
  /\ UNCHANGED <<stdin, output, code, lines, closedW, want, wrote, child,
                 returncode, readsStdin, sin>>

\* code = proc.wait(), lines, and the raise or the return.
Wait ==
  /\ at = "wait"
  /\ child = "exited"
  /\ code' = returncode
  /\ lines' = IF output THEN JoinLines(out) ELSE None
  /\ at' = IF returncode # 0 THEN "raised" ELSE "returned"
  /\ UNCHANGED <<stdin, output, reads, ready, cur, line, out, logs, pipe, closedW,
                 want, wrote, child, returncode, readsStdin, sin>>

Written == Len(wrote["stdout"]) + Len(wrote["stderr"])

\* The child writes a character; with the pipe full the write blocks.
ChildWrite(fd, ch) ==
  /\ child = "running"
  /\ want = NoWant
  /\ ~closedW[fd]
  /\ Written < MaxOut
  /\ IF Len(pipe[fd]) < PipeCap
     THEN /\ pipe' = [pipe EXCEPT ![fd] = Append(@, ch)]
          /\ wrote' = [wrote EXCEPT ![fd] = Append(@, ch)]
          /\ UNCHANGED want
     ELSE /\ want' = [fd |-> fd, ch |-> ch]
          /\ UNCHANGED <<pipe, wrote>>
  /\ UNCHANGED <<stdin, output, reads, ready, cur, line, out, code, lines, at, logs,
                 closedW, child, returncode, readsStdin, sin>>

\* A blocked write goes through once the pipe has room.
ChildResume ==
  /\ child = "running"
  /\ want # NoWant
  /\ Len(pipe[want.fd]) < PipeCap
  /\ pipe' = [pipe EXCEPT ![want.fd] = Append(@, want.ch)]
  /\ wrote' = [wrote EXCEPT ![want.fd] = Append(@, want.ch)]
  /\ want' = NoWant
  /\ UNCHANGED <<stdin, output, reads, ready, cur, line, out, code, lines, at, logs,
                 closedW, child, returncode, readsStdin, sin>>

\* The child closes one of its output streams.
ChildClose(fd) ==
  /\ child = "running"
  /\ want = NoWant
  /\ ~closedW[fd]
  /\ closedW' = [closedW EXCEPT ![fd] = TRUE]
  /\ UNCHANGED <<stdin, output, reads, ready, cur, line, out, code, lines, at, logs,
                 pipe, want, wrote, child, returncode, readsStdin, sin>>

\* The child exits; one that reads its standard input to end-of-file does so
\* only when the pipe it reads from has been closed.
ChildExit(c) ==
  /\ child = "running"
  /\ want = NoWant
  /\ readsStdin => sin # "open"
  /\ child' = "exited"
  /\ returncode' = c
  /\ closedW' = [fd \in {"stdout", "stderr"} |-> TRUE]
  /\ UNCHANGED <<stdin, output, reads, ready, cur, line, out, code, lines, at, logs,
                 pipe, want, wrote, readsStdin, sin>>

vars == <<pathVars, histVars, runVars, procVars>>

Cmd(role, path) == [role |-> role, path |-> path]
Obj(role, path, text, data, entries) ==
  [role |-> role, path |-> path, text |-> text, data |-> data, entries |-> entries]
NoData == FinishData(FALSE, "nofile")
NoCrash == [stage |-> "none", exc |-> "none"]
WorkDir == <<"/", "ws">>
Repo == <<"org", "/", "repo">>

BaseEnv == [k \in EnvNames |-> IF k = "HOME" THEN <<"/", "home">> ELSE None]

\* Environments a run starts in: nothing exported, the GCE key path exported,
\* every credential path exported (one of them as the empty string), HOME unset.
StartEnvs ==
  { BaseEnv,
    [BaseEnv EXCEPT !["JENKINS_GCE_SSH_PRIVATE_KEY_FILE"] = <<"/", "keys", "/", "gce">>],
    [k \in EnvNames |->
       IF k \in CredVars
       THEN (IF k = "GOOGLE_APPLICATION_CREDENTIALS" THEN <<>> ELSE <<"/", "keys", "/", k>>)
       ELSE BaseEnv[k]],
    [BaseEnv EXCEPT !["HOME"] = None] }

RunArgs ==
  [ job : {<<"j">>, <<"/", "j">>},
    branch : {None, <<>>, <<"master">>},
    pull : {NoPull, <<0>>, <<1>>} ]

RunInit ==
  /\ pc = "init-logging"
  /\ sub = "none"
  /\ args \in RunArgs
  /\ \E e \in StartEnvs, b \in {None, <<>>, <<"7">>} :
       env = [e EXCEPT !["BUILD_NUMBER"] = b]
  /\ cwd = WorkDir
  /\ build = None
  /\ version = None
  /\ paths = NoPaths
  /\ success = FALSE
  /\ artifactsDir = FALSE
  /\ pending = {}
  /\ todo = <<>>
  /\ cache = <<>>
  /\ cmds = <<>>
  /\ store = <<>>
  /\ remote = <<>>
  /\ steps = <<>>
  /\ jobOutcome = "none"
  /\ fault = "none"
  /\ crashedAt = NoCrash
  /\ exit = -1
  /\ metadataFiles = NotLooked

RunParked ==
  /\ pc = "done"
  /\ sub = "none"
  /\ args = [job |-> <<>>, branch |-> None, pull |-> NoPull]
  /\ env = BaseEnv
  /\ cwd = WorkDir
  /\ build = None
  /\ version = None
  /\ paths = NoPaths
  /\ success = FALSE
  /\ artifactsDir = FALSE
  /\ pending = {}
  /\ todo = <<>>
  /\ cache = <<>>
  /\ cmds = <<>>
  /\ store = <<>>
  /\ remote = <<>>
  /\ steps = <<>>
  /\ jobOutcome = "none"
  /\ fault = "none"
  /\ crashedAt = NoCrash
  /\ exit = 0
  /\ metadataFiles = NotLooked

\* A faulty handling: the exception is swallowed and Bootstrap goes on to the
\* next stage.
RaiseIgnored(exc) ==
  /\ pc' = NextStage(pc)
  /\ exit' = IF NextStage(pc) = "done" THEN 0 ELSE exit
  /\ UNCHANGED crashedAt

\* An exception nothing catches: the interpreter prints it and exits with 1.
Raise(exc) ==
  /\ pc' = "crashed"
  /\ crashedAt' = [stage |-> pc, exc |-> exc]
  /\ exit' = 1

\* The stage returns and Bootstrap goes on to the next one.
Proceed ==
  /\ pc' = NextStage(pc)
  /\ exit' = IF NextStage(pc) = "done" THEN 0 ELSE exit
  /\ UNCHANGED crashedAt

\* A stage is entered: it is recorded once, at its first position.
Enter(first) == steps' = IF first THEN Append(steps, pc) ELSE steps

\* build_log = SetupLogging(build_log_path)
SetupLogging ==
  /\ pc = "init-logging"
  /\ Enter(TRUE)
  /\ Proceed
  /\ UNCHANGED <<sub, args, env, cwd, build, version, paths, success, artifactsDir,
                 pending, todo, cache, cmds, store, remote, jobOutcome, fault>>
  /\ UNCHANGED metadataFiles

\* build = Build(start): BUILD_NUMBER of the environment, generated when unset.
Build ==
  /\ pc = "compute-build-id"
  /\ Enter(TRUE)
  /\ env' = IF env["BUILD_NUMBER"] = None
            THEN [env EXCEPT !["BUILD_NUMBER"] = <<"autogen">>] ELSE env
  /\ build' = env'["BUILD_NUMBER"]
  /\ Proceed
  /\ sub' = "init"
  /\ UNCHANGED <<args, cwd, version, paths, success, artifactsDir, pending, todo,
                 cache, cmds, store, remote, jobOutcome, fault>>
  /\ UNCHANGED metadataFiles

\* Checkout up to os.chdir(repo): the argument check and git init.
CheckoutInit ==
  /\ pc = "checkout-source" /\ sub = "init"
  /\ Enter(TRUE)
  /\ IF CheckoutError(args.branch, args.pull) # "none"
     THEN /\ Raise(CheckoutError(args.branch, args.pull))
          /\ fault' = "arguments"
          /\ UNCHANGED <<sub, cwd, cmds>>
     ELSE \E outcome \in Outcomes :
            LET res == Subprocess(None, outcome) IN
            /\ cmds' = Append(cmds, Cmd("git-init", <<>>))
            /\ IF res = "return"
               THEN /\ cwd' = Join(<<cwd, Repo>>)
                    /\ sub' = "fetch"
                    /\ UNCHANGED <<pc, crashedAt, exit, fault>>
               ELSE /\ Raise(res)
                    /\ fault' = "git"
                    /\ UNCHANGED <<sub, cwd>>
  /\ UNCHANGED <<args, env, build, version, paths, success, artifactsDir, pending,
                 todo, cache, store, remote, jobOutcome>>
  /\ UNCHANGED metadataFiles

\* git fetch --tags https://github.com/<repo> <ref>
CheckoutFetch ==
  /\ pc = "checkout-source" /\ sub = "fetch"
  /\ Enter(FALSE)
  /\ \E outcome \in Outcomes :
       LET res == Subprocess(None, outcome) IN
       /\ cmds' = Append(cmds, Cmd("git-fetch", <<>>))
       /\ IF res = "return"
          THEN /\ sub' = "checkout"
               /\ UNCHANGED <<pc, crashedAt, exit, fault>>
          ELSE /\ Raise(res)
               /\ fault' = "git"
               /\ UNCHANGED sub
  /\ UNCHANGED <<args, env, cwd, build, version, paths, success, artifactsDir,
                 pending, todo, cache, store, remote, jobOutcome>>
  /\ UNCHANGED metadataFiles

\* git checkout FETCH_HEAD
CheckoutHead ==
  /\ pc = "checkout-source" /\ sub = "checkout"
  /\ Enter(FALSE)
  /\ \E outcome \in Outcomes :
       LET res == Subprocess(None, outcome) IN
       /\ cmds' = Append(cmds, Cmd("git-checkout", <<>>))
       /\ IF res = "return"
          THEN /\ Proceed
               /\ UNCHANGED fault
          ELSE /\ Raise(res)
               /\ fault' = "git"
  /\ UNCHANGED <<sub, args, env, cwd, build, version, paths, success, artifactsDir,
                 pending, todo, cache, store, remote, jobOutcome>>
  /\ UNCHANGED metadataFiles

\* version = Version(): the version file, else the version script, else 'unknown'.
Version ==
  /\ pc = "detect-version"
  /\ Enter(TRUE)
  /\ \/ /\ \E v \in {<<"v1">>, <<>>} : version' = v
        /\ Proceed
        /\ sub' = "check"
        /\ UNCHANGED cmds
     \/ \E outcome \in Outcomes :
          LET res == Subprocess(None, outcome) IN
          /\ cmds' = Append(cmds, Cmd("version-script", <<>>))
          /\ IF res = "return"
             THEN /\ version' = <<"v2">>
                  /\ Proceed
                  /\ sub' = "check"
             ELSE /\ Raise(res)
                  /\ UNCHANGED <<version, sub>>
     \/ /\ version' = <<"unknown">>
        /\ Proceed
        /\ sub' = "check"
        /\ UNCHANGED cmds
  /\ UNCHANGED <<args, env, cwd, build, paths, success, artifactsDir, pending, todo,
                 cache, store, remote, jobOutcome, fault>>
  /\ UNCHANGED metadataFiles

\* SetupCredentials up to the redirection of HOME: the defaults and the two
\* file checks.  Whether the two files exist is the file system's answer; the
\* empty path names no file.
SetupCredentials ==
  /\ pc = "setup-credentials" /\ sub = "check"
  /\ Enter(TRUE)
  /\ \E keyFile, credFile \in BOOLEAN :
       LET e1 == CredentialDefaults(env)
           err == CredentialError(env["HOME"], keyFile, credFile)
       IN /\ e1["JENKINS_GCE_SSH_PRIVATE_KEY_FILE"] = <<>> => ~keyFile
          /\ e1["GOOGLE_APPLICATION_CREDENTIALS"] = <<>> => ~credFile
          /\ fault' = IF env["HOME"] = None THEN "home-unset"
                      ELSE IF ~keyFile THEN "key-missing"
                      ELSE IF ~credFile THEN "credential-missing"
                      ELSE fault
          /\ env' = IF env["HOME"] = None THEN env
                    ELSE IF err # "none" THEN e1
                    ELSE RedirectHome(e1, cwd)
          /\ IF err # "none"
             THEN Raise(err) /\ UNCHANGED sub
             ELSE sub' = "activate" /\ UNCHANGED <<pc, crashedAt, exit>>
  /\ UNCHANGED <<args, cwd, build, version, paths, success, artifactsDir, pending,
                 todo, cache, cmds, store, remote, jobOutcome>>
  /\ UNCHANGED metadataFiles

\* gcloud auth activate-service-account --key-file=...
Activate ==
  /\ pc = "setup-credentials" /\ sub = "activate"
  /\ Enter(FALSE)
  /\ \E outcome \in Outcomes :
       LET res == Subprocess(None, outcome) IN
       /\ cmds' = Append(cmds, Cmd("gcloud-activate", <<>>))
       /\ IF res = "return"
          THEN Proceed /\ UNCHANGED fault
          ELSE Raise(res) /\ fault' = "activation"
  /\ UNCHANGED <<sub, args, env, cwd, build, version, paths, success, artifactsDir,
                 pending, todo, cache, store, remote, jobOutcome>>
  /\ UNCHANGED metadataFiles

\* The path set, JOB_NAME and Start: the start record is uploaded.
Start ==
  /\ pc = "report-start"
  /\ Enter(TRUE)
  /\ paths' = SelectPaths(args.job, build, args.pull)
  /\ env' = IF env["JOB_NAME"] = None THEN [env EXCEPT !["JOB_NAME"] = args.job] ELSE env
  /\ cmds' = Append(cmds, Cmd("started", paths'.started))
  /\ \E outcome \in Outcomes :
       LET res == Subprocess(JsonText, outcome) IN
       IF res = "return"
       THEN /\ store' = Append(store, Obj("started", paths'.started, JsonText, NoData, <<>>))
            /\ Proceed
       ELSE /\ Raise(res)
            /\ UNCHANGED store
  /\ UNCHANGED <<sub, args, cwd, build, version, success, artifactsDir, pending, todo,
                 cache, remote, jobOutcome, fault>>
  /\ UNCHANGED metadataFiles

\* The try statement around the job runner.  Whether the job left an
\* _artifacts directory is known once it has run.
RunJob ==
  /\ pc = "run-job"
  /\ Enter(TRUE)
  /\ cmds' = Append(cmds, Cmd("job", <<>>))
  /\ \E outcome \in Outcomes, dir \in BOOLEAN :
       LET res == Subprocess(None, outcome) IN
       /\ jobOutcome' = outcome
       /\ IF JobRaises(res)
          THEN /\ Raise(res)
               /\ UNCHANGED <<success, artifactsDir, sub>>
          ELSE /\ success' = JobSuccess(res)
               /\ artifactsDir' = dir
               /\ sub' = Head(FinishSubs)
               /\ Proceed
  /\ UNCHANGED <<args, env, cwd, build, version, paths, pending, todo, cache, store,
                 remote, fault>>
  /\ UNCHANGED metadataFiles

\* Finish: UploadArtifacts, when the artifact directory exists.
FinishArtifacts ==
  /\ pc = "report-finish" /\ sub = "artifacts"
  /\ Enter(TRUE)
  /\ IF artifactsDir
     THEN /\ cmds' = Append(cmds, Cmd("artifacts", paths.artifacts))
          /\ \E outcome \in Outcomes :
               LET res == Subprocess(None, outcome) IN
               IF res = "return"
               THEN /\ store' = Append(store, Obj("artifacts", paths.artifacts, <<>>, NoData, <<>>))
                    /\ sub' = AfterSub(sub)
                    /\ pending' = PointerPaths(paths)
                    /\ UNCHANGED <<pc, crashedAt, exit>>
               ELSE /\ Raise(res)
                    /\ UNCHANGED <<store, sub, pending>>
     ELSE /\ sub' = AfterSub(sub)
          /\ pending' = PointerPaths(paths)
          /\ UNCHANGED <<pc, crashedAt, exit, cmds, store>>
  /\ UNCHANGED <<args, env, cwd, build, version, paths, success, artifactsDir, todo,
                 cache, remote, jobOutcome, fault>>
  /\ UNCHANGED metadataFiles

\* Finish: one turn of the loop over the pointer paths, in the order the set
\* gives them: gsutil.UploadText(path, str(build), cached=False).
FinishLatest ==
  /\ pc = "report-finish" /\ sub = "latest"
  /\ Enter(FALSE)
  /\ \E p \in pending, outcome \in Outcomes :
       LET res == Subprocess(build, outcome) IN
       /\ cmds' = Append(cmds, Cmd("latest", p))
       /\ IF res = "return"
          THEN /\ store' = Append(store, Obj("latest", p, build, NoData, <<>>))
               /\ pending' = pending \ {p}
               /\ sub' = IF pending' = {} THEN AfterSub(sub) ELSE sub
               /\ UNCHANGED <<pc, crashedAt, exit>>
          ELSE IF res = "hang"
          THEN /\ pc' = "hung"
               /\ UNCHANGED <<store, pending, sub, crashedAt, exit>>
          ELSE /\ Raise(res)
               /\ UNCHANGED <<store, pending, sub>>
  /\ UNCHANGED <<args, env, cwd, build, version, paths, success, artifactsDir, todo,
                 cache, remote, jobOutcome, fault>>
  /\ UNCHANGED metadataFiles

\* Finish: the link file, when the path set defines one.
FinishLink ==
  /\ pc = "report-finish" /\ sub = "link"
  /\ Enter(FALSE)
  /\ IF Truthy(paths.build_link)
     THEN /\ cmds' = Append(cmds, Cmd("link", paths.build_link))
          /\ \E outcome \in Outcomes :
               LET res == Subprocess(paths.build_path, outcome) IN
               IF res = "return"
               THEN /\ store' = Append(store, Obj("link", paths.build_link,
                                                  paths.build_path, NoData, <<>>))
                    /\ sub' = AfterSub(sub)
                    /\ todo' = CachePaths(paths)
                    /\ UNCHANGED <<pc, crashedAt, exit>>
               ELSE IF res = "hang"
               THEN /\ pc' = "hung"
                    /\ UNCHANGED <<store, sub, todo, crashedAt, exit>>
               ELSE /\ Raise(res)
                    /\ UNCHANGED <<store, sub, todo>>
     ELSE /\ sub' = AfterSub(sub)
          /\ todo' = CachePaths(paths)
          /\ UNCHANGED <<pc, crashedAt, exit, cmds, store>>
  /\ UNCHANGED <<args, env, cwd, build, version, paths, success, artifactsDir,
                 pending, cache, remote, jobOutcome, fault>>
  /\ UNCHANGED metadataFiles

\* The documents a run can find at a history path it has not touched yet.
PriorDocs ==
  { Doc("absent", <<>>), Doc("garbage", <<>>), Doc("object", <<>>),
    ListDoc(<<>>), ListDoc(SeedList(1)) }

\* Finish: AppendBuild on the next history document, up to the upload.
AppendRead ==
  /\ pc = "report-finish" /\ sub = "read"
  /\ Enter(FALSE)
  /\ LET path == Head(todo) IN
     \E outcome \in Outcomes :
     \E d \in (IF path \in DOMAIN remote THEN {remote[path]} ELSE PriorDocs) :
        LET bc == BuildCache(d, outcome, Entry(version, build, success)) IN
        /\ CanEnd(d, outcome)
        /\ cmds' = Append(cmds, Cmd("history-read", path))
        /\ remote' = (path :> d) @@ remote
        /\ IF bc.exc = "none"
           THEN /\ cache' = bc.cache
                /\ sub' = AfterSub(sub)
                /\ UNCHANGED <<pc, crashedAt, exit>>
           ELSE /\ Raise(bc.exc)
                /\ UNCHANGED <<cache, sub>>
  /\ UNCHANGED <<args, env, cwd, build, version, paths, success, artifactsDir,
                 pending, todo, store, jobOutcome, fault>>
  /\ UNCHANGED metadataFiles

\* Finish: the upload that ends AppendBuild; then the next document, if any.
AppendWrite ==
  /\ pc = "report-finish" /\ sub = "write"
  /\ Enter(FALSE)
  /\ LET path == Head(todo) IN
     /\ cmds' = Append(cmds, Cmd("history", path))
     /\ \E outcome \in Outcomes :
          LET res == Subprocess(JsonText, outcome) IN
          IF res = "return"
          THEN /\ remote' = (path :> ListDoc(cache)) @@ remote
               /\ store' = Append(store, Obj("history", path, JsonText, NoData, cache))
               /\ todo' = Tail(todo)
               /\ sub' = IF todo' = <<>> THEN AfterSub(sub) ELSE "read"
               /\ UNCHANGED <<pc, crashedAt, exit>>
          ELSE /\ Raise(res)
               /\ UNCHANGED <<remote, store, todo, sub>>
  /\ UNCHANGED <<args, env, cwd, build, version, paths, success, artifactsDir,
                 pending, cache, jobOutcome, fault>>
  /\ UNCHANGED metadataFiles

\* Finish: the finish record, with the metadata when there is some.  What the
\* file system holds at the path looked up and at the job's own metadata file
\* is its answer at this moment.
FinishRecord ==
  /\ pc = "report-finish" /\ sub = "record"
  /\ Enter(FALSE)
  /\ cmds' = Append(cmds, Cmd("finished", paths.finished))
  /\ \E local \in MetaKinds, meta \in MetaKinds, outcome \in Outcomes :
       LET res == Subprocess(JsonText, outcome) IN
       /\ ~artifactsDir => local = "nofile"
       /\ MetadataPath(paths) = LocalMetadataPath => meta = local
       /\ metadataFiles' = [local |-> local, looked |-> meta]
       /\ IF res = "return"
          THEN /\ store' = Append(store, Obj("finished", paths.finished, JsonText,
                                             FinishData(success, meta), <<>>))
               /\ Proceed
          ELSE /\ Raise(res)
               /\ UNCHANGED store
  /\ UNCHANGED <<sub, args, env, cwd, build, version, paths, success, artifactsDir,
                 pending, todo, cache, remote, jobOutcome, fault>>

\* gsutil.CopyFile(paths.build_log, build_log_path), and Bootstrap returns.
CopyLog ==
  /\ pc = "finalize-log-upload"
  /\ Enter(TRUE)
  /\ cmds' = Append(cmds, Cmd("build_log", paths.build_log))
  /\ \E outcome \in Outcomes :
       LET res == Subprocess(None, outcome) IN
       IF res = "return"
       THEN /\ store' = Append(store, Obj("build_log", paths.build_log, <<>>, NoData, <<>>))
            /\ Proceed
       ELSE /\ Raise(res)
            /\ UNCHANGED store
  /\ UNCHANGED <<sub, args, env, cwd, build, version, paths, success, artifactsDir,
                 pending, todo, cache, remote, jobOutcome, fault>>
  /\ UNCHANGED metadataFiles

\* ============================================================ specifications
\* One Bootstrap run.
Init == RunInit /\ PathsParked /\ HistParked /\ ProcParked
Next ==
  \/ SetupLogging /\ UNCHANGED <<pathVars, histVars, procVars>>
  \/ Build /\ UNCHANGED <<pathVars, histVars, procVars>>
  \/ CheckoutInit /\ UNCHANGED <<pathVars, histVars, procVars>>
  \/ CheckoutFetch /\ UNCHANGED <<pathVars, histVars, procVars>>
  \/ CheckoutHead /\ UNCHANGED <<pathVars, histVars, procVars>>
  \/ Version /\ UNCHANGED <<pathVars, histVars, procVars>>
  \/ SetupCredentials /\ UNCHANGED <<pathVars, histVars, procVars>>
  \/ Activate /\ UNCHANGED <<pathVars, histVars, procVars>>
  \/ Start /\ UNCHANGED <<pathVars, histVars, procVars>>
  \/ RunJob /\ UNCHANGED <<pathVars, histVars, procVars>>
  \/ FinishArtifacts /\ UNCHANGED <<pathVars, histVars, procVars>>
  \/ FinishLatest /\ UNCHANGED <<pathVars, histVars, procVars>>
  \/ FinishLink /\ UNCHANGED <<pathVars, histVars, procVars>>
  \/ AppendRead /\ UNCHANGED <<pathVars, histVars, procVars>>
  \/ AppendWrite /\ UNCHANGED <<pathVars, histVars, procVars>>
  \/ FinishRecord /\ UNCHANGED <<pathVars, histVars, procVars>>
  \/ CopyLog /\ UNCHANGED <<pathVars, histVars, procVars>>
Spec == Init /\ [][Next]_vars

\* The path scheme applied to every input within the bounds.
PathsNext == MakePaths /\ UNCHANGED <<histVars, runVars, procVars>>
InitPaths == PathsInit /\ HistParked /\ RunParked /\ ProcParked
SpecPaths == InitPaths /\ [][PathsNext]_vars

\* Two runs appending to one history document.
HistNext ==
  \/ \E r \in Runs : HRead(r) /\ UNCHANGED <<pathVars, runVars, procVars>>
  \/ \E r \in Runs : HWrite(r) /\ UNCHANGED <<pathVars, runVars, procVars>>
InitHist == HistInit /\ PathsParked /\ RunParked /\ ProcParked
SpecHist == InitHist /\ [][HistNext]_vars

\* SetupCredentials called in every environment within the bounds: each
\* credential variable unset, exported as the empty string or exported as a
\* path, HOME set or unset.  The run stands where Bootstrap calls it.
CredEnvs ==
  { e \in [EnvNames -> {None, <<>>, <<"/", "home">>, <<"/", "keys">>, <<"7">>}] :
      /\ e["HOME"] \in {None, <<"/", "home">>}
      /\ e["BUILD_NUMBER"] = <<"7">>
      /\ \A k \in CredVars : e[k] \in {None, <<>>, <<"/", "keys">>}
      /\ \A k \in EnvNames \ (CredVars \cup {"HOME", "BUILD_NUMBER"}) : e[k] = None }

CredInit ==
  /\ pc = "setup-credentials"
  /\ sub = "check"
  /\ args = [job |-> <<"j">>, branch |-> <<"master">>, pull |-> NoPull]
  /\ env \in CredEnvs
  /\ cwd = Join(<<WorkDir, Repo>>)
  /\ build = <<"7">>
  /\ version = <<"v1">>
  /\ paths = NoPaths
  /\ success = FALSE
  /\ artifactsDir = FALSE
  /\ pending = {}
  /\ todo = <<>>
  /\ cache = <<>>
  /\ cmds = <<Cmd("git-init", <<>>), Cmd("git-fetch", <<>>), Cmd("git-checkout", <<>>)>>
  /\ store = <<>>
  /\ remote = <<>>
  /\ steps = <<"init-logging", "compute-build-id", "checkout-source", "detect-version">>
  /\ jobOutcome = "none"
  /\ fault = "none"
  /\ crashedAt = NoCrash
  /\ exit = -1
  /\ metadataFiles = NotLooked

CredNext ==
  \/ SetupCredentials /\ UNCHANGED <<pathVars, histVars, procVars>>
  \/ Activate /\ UNCHANGED <<pathVars, histVars, procVars>>
InitCred == CredInit /\ PathsParked /\ HistParked /\ ProcParked
SpecCred == InitCred /\ [][CredNext]_vars

\* The process runner with a child of every behaviour within the bounds.
ProcNext ==
  \/ Popen /\ UNCHANGED <<pathVars, histVars, runVars>>
  \/ Select /\ UNCHANGED <<pathVars, histVars, runVars>>
  \/ Readline /\ UNCHANGED <<pathVars, histVars, runVars>>
  \/ Wait /\ UNCHANGED <<pathVars, histVars, runVars>>
  \/ \E fd \in {"stdout", "stderr"}, ch \in Chars :
       ChildWrite(fd, ch) /\ UNCHANGED <<pathVars, histVars, runVars>>
  \/ ChildResume /\ UNCHANGED <<pathVars, histVars, runVars>>
  \/ \E fd \in {"stdout", "stderr"} :
       ChildClose(fd) /\ UNCHANGED <<pathVars, histVars, runVars>>
  \/ \E c \in {0, 1} : ChildExit(c) /\ UNCHANGED <<pathVars, histVars, runVars>>
InitProc == ProcInit /\ PathsParked /\ HistParked /\ RunParked
SpecProc == InitProc /\ [][ProcNext]_vars

\* ==================================================================== claims
InSeq(x, s) == \E i \in DOMAIN s : s[i] = x
IsPrefix(s, t) == Len(s) <= Len(t) /\ SubSeq(t, 1, Len(s)) = s
IsSuffix(s, t) == Len(s) <= Len(t) /\ SubSeq(t, Len(t) - Len(s) + 1, Len(t)) = s
Ran(role) == \E i \in DOMAIN cmds : cmds[i].role = role
Stored(role) == \E i \in DOMAIN store : store[i].role = role
\* The job step is over: the job runner ended, one way or another.
JobStepOver == jobOutcome # "none"
\* Finish returned to Bootstrap.
FinishReturned ==
  \/ pc \in {"finalize-log-upload", "done"}
  \/ pc = "crashed" /\ crashedAt.stage = "finalize-log-upload"

\* C1: when the run reaches its end with every command but the job runner
\* succeeding, the exit code is zero if the job runner exited zero and non-zero
\* if the job runner exited non-zero.
C1_ExitReflectsJob ==
  pc = "done" =>
    /\ jobOutcome = "zero" => exit = 0
    /\ jobOutcome = "nonzero" => exit # 0

\* C2: once the job step is over, whichever way the job runner ended (exit
\* zero, exit non-zero, not launched), control is in Finish or has been there.
C2_JobOutcomeCaptured ==
  JobStepOver => pc = "report-finish" \/ InSeq("report-finish", steps)

\* C3: a finish record that is uploaded has passed = TRUE and result SUCCESS
\* exactly when the job runner exited zero, and passed = FALSE and result
\* FAILURE exactly when it exited non-zero; every history entry the run appends
\* carries the same value; and when Finish has returned the finish record has
\* been uploaded, with the artifact tree uploaded only if the directory exists.
C3_FinishRecordMatchesJob ==
  /\ \A i \in DOMAIN store :
       store[i].role = "finished" =>
         /\ jobOutcome \in {"zero", "nonzero"}
         /\ store[i].data.passed = (jobOutcome = "zero")
         /\ store[i].data.result = (IF jobOutcome = "zero" THEN "SUCCESS" ELSE "FAILURE")
  /\ \A i \in DOMAIN store :
       store[i].role = "history" =>
         LET e == store[i].entries[Len(store[i].entries)] IN
         /\ e.passed = (jobOutcome = "zero")
         /\ e.result = (IF jobOutcome = "zero" THEN "SUCCESS" ELSE "FAILURE")
  /\ FinishReturned => Stored("finished")
  /\ Ran("artifacts") => artifactsDir

\* C3 witness: the job runner exited zero, there is no artifact directory, and
\* the run ended with a finish record that says passed.
C3_Witness ==
  /\ pc = "done" /\ jobOutcome = "zero" /\ ~artifactsDir /\ ~Ran("artifacts")
  /\ \E i \in DOMAIN store : store[i].role = "finished" /\ store[i].data.passed

\* The pre-job errors of C4.
PreJobFaults == {"arguments", "git", "key-missing", "credential-missing", "activation"}

\* C4: when Checkout or SetupCredentials fails, the run has ended with a
\* non-zero exit code, the job runner was never started and nothing was
\* uploaded: no start record, finish record, pointer or history.
C4_FailFast ==
  fault \in PreJobFaults =>
    /\ pc = "crashed" /\ exit = 1
    /\ ~Ran("job")
    /\ \A i \in DOMAIN cmds :
         cmds[i].role \notin {"started", "finished", "latest", "history", "link"}
    /\ store = <<>>

\* C4 witness: the service-account file is missing and the run has crashed in
\* SetupCredentials.
C4_Witness ==
  /\ fault = "credential-missing"
  /\ pc = "crashed" /\ crashedAt.stage = "setup-credentials"

FinishRoles == {"artifacts", "latest", "link", "history-read", "history", "finished"}
IsFinishCmd(c) == c.role \in FinishRoles
FinishCmds == SelectSeq(cmds, IsFinishCmd)

\* The orders in which the pointer paths can be visited.
PointerOrders(p) ==
  LET S == {p.latest, p.build_latest} IN
  {o \in [1..Cardinality(S) -> S] : {o[i] : i \in DOMAIN o} = S}

\* The commands of a whole finish sequence as C6 states it.
ExpectedFinish(p, dir, order) ==
  (IF dir THEN <<Cmd("artifacts", p.artifacts)>> ELSE <<>>)
  \o [i \in DOMAIN order |-> Cmd("latest", order[i])]
  \o (IF p.build_link # None THEN <<Cmd("link", p.build_link)>> ELSE <<>>)
  \o <<Cmd("history-read", p.result_cache), Cmd("history", p.result_cache)>>
  \o (IF p.build_result_cache # None
      THEN <<Cmd("history-read", p.build_result_cache),
             Cmd("history", p.build_result_cache)>>
      ELSE <<>>)
  \o <<Cmd("finished", p.finished)>>

\* C6: the commands Finish has started are an initial part of the fixed
\* sequence (artifact tree only if the directory exists, pointers, link if
\* defined, directory history, PR history if defined, finish record), they are
\* the whole sequence once Finish has returned, and every pointer uploaded
\* holds the build id.
C6_FinishOrder ==
  /\ Ran("job") /\ ~(pc = "crashed" /\ crashedAt.stage = "run-job") =>
       \E order \in PointerOrders(paths) :
          LET exp == ExpectedFinish(paths, artifactsDir, order) IN
          /\ IsPrefix(FinishCmds, exp)
          /\ FinishReturned => FinishCmds = exp
  /\ \A i \in DOMAIN store : store[i].role = "latest" => store[i].text = build

\* C6 witness: a pull-request run without an artifact directory whose Finish
\* returned after two pointers, the link, two histories and the finish record.
C6_Witness ==
  /\ FinishReturned /\ ~artifactsDir
  /\ paths.variant = "PR" /\ paths.latest # paths.build_latest
  /\ Len(FinishCmds) = 8

\* The entries of the calls whose upload succeeded, in upload order.
Appended == [i \in DOMAIN log |-> log[i].entry]

ReadFailed(c) ==
  \/ c.outcome = "nonzero"
  \/ c.outcome = "zero" /\ c.saw \in UnparseableKinds

\* C8: when the read command exits non-zero (as it does for an absent
\* document) or its output is not JSON, the read raises nothing and the list
\* AppendBuild uploads is the new entry alone.
C8_AbsentOrUnparseable ==
  /\ \A r \in Runs :
       ReadFailed(rcall[r]) =>
         /\ rcall[r].exc = "none"
         /\ rcall[r].cache = <<rcall[r].entry>>
  /\ \A i \in DOMAIN log : ReadFailed(log[i]) => log[i].wrote = <<log[i].entry>>

\* C8 witness: a call met a document that is not JSON and the document is now
\* the one-entry list of that call.
C8_Witness ==
  \E i \in DOMAIN log :
    /\ log[i].saw \in UnparseableKinds /\ log[i].outcome = "zero"
    /\ doc = ListDoc(<<log[i].entry>>)

C10_LatestAndLink ==
  /\ pout.variant = "CI" => pout.latest = pout.build_latest /\ pout.build_link = None
  /\ pout.variant = "PR" => pout.latest # pout.build_latest /\ pout.build_link # None

\* The fields of a path set that hold a path.
PathFields(p) == {f \in DOMAIN p : f \notin {"variant", "base"} /\ p[f] # None}

\* C11: every path of the computed path set starts with the base of its
\* variant (logs for CI, pr-logs for pull requests), and the path set is the
\* one the same inputs give again.
C11_PathsUnderBase ==
  pout # NoPaths =>
    /\ pout.base = (IF PullTruthy(pin.pull) THEN PRBase ELSE CIBase)
    /\ \A f \in PathFields(pout) : HasPrefix(pout[f], pout.base)
    /\ pout = SelectPaths(pin.job, pin.build, pin.pull)

\* A branch, a pull-request number was given on the command line.
BranchGiven == args.branch # None
PullGiven == args.pull # NoPull

\* C12: Checkout called with both a branch and a pull-request number, or with
\* neither, raises the argument error with no git command run and the working
\* directory unchanged; called with exactly one of them it does not raise it.
C12_ExactlyOneOfBranchAndPull ==
  InSeq("checkout-source", steps) =>
    IF BranchGiven = PullGiven
    THEN /\ pc = "crashed" /\ crashedAt = [stage |-> "checkout-source", exc |-> "ValueError"]
         /\ cmds = <<>>
         /\ cwd = WorkDir
    ELSE crashedAt.exc # "ValueError"


\* C13: SetupCredentials sets a credential variable only if it is absent: a
\* variable present before a step of the call has the same value after it, and
\* an absent one gets its default under the home directory of before the call
\* (or stays absent when the call fails because HOME is unset).
C13_SetIfAbsent ==
  [][ pc = "setup-credentials" =>
        \A k \in CredVars :
          IF env[k] # None
          THEN env'[k] = env[k]
          ELSE /\ sub = "check"
               /\ IF env["HOME"] = None
                  THEN env'[k] = None
                  ELSE env'[k] = Join(<<env["HOME"], CredDefault(k)>>) ]_vars

\* The call went on to the activation with one variable kept as exported, one
\* kept as the empty string it was exported as and one defaulted under the
\* former home directory.
C13_Witness ==
  /\ pc = "setup-credentials" /\ sub = "activate"
  /\ env["HOME"] = cwd
  /\ env["JENKINS_GCE_SSH_PRIVATE_KEY_FILE"] = <<"/", "keys">>
  /\ env["JENKINS_AWS_SSH_PUBLIC_KEY_FILE"] = <<>>
  /\ env["GOOGLE_APPLICATION_CREDENTIALS"] = <<"/", "home", "/", "service-account.json">>


\* The runner waits in readline on fd: nothing to take and no end-of-file.
RunnerWaitsOn(fd) ==
  at = "readline" /\ cur = fd /\ pipe[fd] = <<>> /\ ~closedW[fd]
\* The child is blocked writing to fd: the pipe is full.
ChildBlockedOn(fd) ==
  child = "running" /\ want.fd = fd /\ Len(pipe[fd]) >= PipeCap

\* C14: the runner and the child never reach a state where the runner waits
\* on one output stream while the child is blocked writing to the other.
C14_NoPipeDeadlock ==
  \A f, g \in {"stdout", "stderr"} :
    f # g => ~(RunnerWaitsOn(f) /\ ChildBlockedOn(g))

\* The lines of a written stream: the text before each newline, and the text
\* after the last newline when there is some.
RECURSIVE LinesOf(_)
LinesOf(s) ==
  IF s = <<>> THEN <<>>
  ELSE IF FirstNL(s) = 0 THEN <<s>>
  ELSE <<SubSeq(s, 1, FirstNL(s) - 1)>> \o LinesOf(SubSeq(s, FirstNL(s) + 1, Len(s)))

\* The texts logged at a level, in order.
RECURSIVE LoggedAt(_, _)
LoggedAt(level, l) ==
  IF l = <<>> THEN <<>>
  ELSE (IF l[1].level = level THEN <<l[1].text>> ELSE <<>>) \o LoggedAt(level, Tail(l))

\* C15: when the call has returned or raised, both streams are at end-of-file
\* and read out, the child has been waited for, and the lines the child wrote
\* to each stream are the texts logged after the log of the call at the level
\* of that stream, in order.
C15_DrainedBeforeReturn ==
  at \in {"returned", "raised"} =>
    /\ reads = <<>>
    /\ \A fd \in {"stdout", "stderr"} : closedW[fd] /\ pipe[fd] = <<>>
    /\ child = "exited" /\ code = returncode
    /\ \A fd \in {"stdout", "stderr"} :
         LoggedAt(Level(fd), Tail(logs)) = LinesOf(wrote[fd])

\* C20: once the call is past the start of the child, a stdin input that is
\* not None, the empty string included, has been written to the child's
\* standard-input pipe and the pipe is closed.
C20_StdinHandedOff ==
  (at # "popen" /\ stdin # None) => sin = "closed"


\* The finish record uploaded by the run.
FinishedRecord == store[CHOOSE i \in DOMAIN store : store[i].role = "finished"]

\* C16: the finish record carries the metadata field exactly when the job's
\* _artifacts/metadata.json is present and holds a well-formed JSON object.
C16_MetadataField ==
  Stored("finished") =>
    (FinishedRecord.data.metadata <=> metadataFiles.local \in {"emptyobject", "object"})


\* The read of a call gave a document that is no history: text that is not
\* JSON, or JSON that is not a list.
ReadCorrupt(c) ==
  c.outcome = "zero" /\ c.saw \in UnparseableKinds \cup NonListKinds

\* C17: whatever corrupt document the read returns, JSON that is not a list
\* included, AppendBuild raises nothing and the list it uploads is the new
\* entry alone.
C17_CorruptRecovered ==
  \A r \in Runs :
    ReadCorrupt(rcall[r]) =>
      /\ rcall[r].exc = "none"
      /\ rcall[r].cache = <<rcall[r].entry>>


\* The upload commands started, in order, and the last element of a sequence.
UploadRoles ==
  {"started", "artifacts", "latest", "link", "history", "finished", "build_log"}
IsUpload(c) == c.role \in UploadRoles
Uploads == SelectSeq(cmds, IsUpload)
Last(s) == s[Len(s)]
\* The commands of the uploads that succeeded.
Uploaded == [i \in DOMAIN store |-> Cmd(store[i].role, store[i].path)]
\* An upload of Start or Finish exited non-zero.
UploadFailed ==
  /\ pc = "crashed"
  /\ crashedAt.exc = "CalledProcessError"
  /\ crashedAt.stage \in {"report-start", "report-finish"}

StoredAt(role, path) ==
  {i \in DOMAIN store : store[i].role = role /\ store[i].path = path}
PathsOf(role) == {store[i].path : i \in {j \in DOMAIN store : store[j].role = role}}

\* C19: when Finish has returned, each pointer path has received one upload of
\* the build id and each history document one appended entry; a CI run has
\* made one pointer upload and one history append, a pull-request run two of
\* each, to different paths.
C19_ExactlyOncePerTarget ==
  FinishReturned =>
    /\ \A p \in PathsOf("latest") : Cardinality(StoredAt("latest", p)) = 1
    /\ \A p \in PathsOf("history") : Cardinality(StoredAt("history", p)) = 1
    /\ LET n == IF paths.variant = "PR" THEN 2 ELSE 1 IN
       /\ Cardinality(PathsOf("latest")) = n
       /\ Cardinality(PathsOf("history")) = n

====
